---- MODULE Spec2Model ----
(***************************************************************************)
(* A model of wsaver.py (ldjacobs/wsaver): restoring saved window          *)
(* positions.  The restore pass run_remembered reads the saved list line   *)
(* by line, looks each record up among the running windows and either      *)
(* repositions a window or launches the application and polls for its      *)
(* window (open_appwindow).                                                *)
(*                                                                         *)
(* Text is modelled as sequences of one-character strings, so that         *)
(* Python's substring test `a in b`, indexing `a[0]` and int() are         *)
(* computed as the code computes them.                                     *)
(***************************************************************************)
EXTENDS Integers, Sequences, FiniteSets, TLC

VARIABLES
    pc,        \* position of the restore pass
    err,       \* the exception that ended the pass, or "none"
    dry_run,   \* opts.dry_run
    isFile,    \* WFILE.is_file()
    file,      \* lines of WFILE, each already split on whitespace
    wins,      \* the window manager's windows, in listing order
    procs,     \* the process table
    viewport,  \* the viewport positions "wmctrl -d" reports
    res,       \* get_vpdata() result
    running,   \* read_window_ids() result, an insertion-ordered dict
    startWins, \* the windows that were open when the pass made its queries
    i,         \* number of the line readline() returned last
    frame,     \* open_appwindow's locals (app, dtop, x, y, w, h, ws1)
    t,         \* open_appwindow's poll counter
    cmds,      \* WM commands issued by call(), oldest first
    spawns,    \* commands handed to Popen, oldest first
    plan,      \* the branch run_remembered took for each line read
    stderr,    \* messages dprint printed, by a restore or by a save
    envSteps,  \* number of changes the desktop made by itself
    pass,      \* 1 for the first restore run, 2 for a second run
    prevPlan,  \* plan of the first run, once a second run has started
    prevDry,   \* dry_run of the first run
    cpc,       \* position of an invocation that may save: main, read_windows, ...
    entry,     \* how the invocation began: main() from the shell, or a call of
               \* read_windows(opts) by importing code
    argv,      \* the flags given on the command line
    opts,      \* the argparse Namespace
    desk,      \* the desktop a save sees: "wmctrl -lpG" lines, xprop, ps
    stdout,    \* lines the invocation printed
    wfile,     \* the text of WFILE on disk, line by line, or NoFile
    wfileAtStart, \* wfile as the invocation found it
    relevant,  \* read_windows' list of the same name
    cerr,      \* the exception that ended the invocation, or "none"
    runs       \* invocations so far

\* the variables of the restore pass
restoreVars == <<pc, err, dry_run, isFile, file, wins, procs, viewport, res, running,
                 startWins, i, frame, t, cmds, spawns, plan, envSteps, pass,
                 prevPlan, prevDry>>

\* the variables of an invocation that may save
capVars == <<cpc, entry, argv, opts, desk, stdout, wfile, wfileAtStart, relevant, cerr, runs>>

vars == <<restoreVars, capVars, stderr>>

----------------------------------------------------------------------------
(* Bounds of the model *)

\* most lines in the saved file
MaxRecords == 2
\* most changes of the desktop (a new window, a new title) in one behaviour
MaxEnvSteps == 2
\* most invocations that may save, one after the other
MaxInvocations == 2
\* the desktop changes only before this many polls of a launch have passed
EnvHorizon == 1

----------------------------------------------------------------------------
(* Program constants *)

DEBUG == 1
WIN_TITLE_HEIGHT == 24
v_offset == 35
MAX_TRIES == 30
\* number of fields of the wlist namedtuple
WlistFields == 7

----------------------------------------------------------------------------
(* Text *)

\* Python's `s in u` on strings
IsSubstr(s, u) ==
    \E k \in 0..(Len(u) - Len(s)) : SubSeq(u, k + 1, k + Len(s)) = s

DigitChars == <<"0", "1", "2", "3", "4", "5", "6", "7", "8", "9">>

DigitVal(c) == (CHOOSE k \in 1..10 : DigitChars[k] = c) - 1

\* Python's int() on a string of decimal digits
RECURSIVE StrToInt(_)
StrToInt(s) ==
    IF s = <<>> THEN 0
    ELSE 10 * StrToInt(SubSeq(s, 1, Len(s) - 1)) + DigitVal(s[Len(s)])

\* a single decimal digit as text
DigitStr(n) == <<DigitChars[n + 1]>>

SP == <<" ">>
NL == <<"\n">>

RECURSIVE NatStr(_)
\* Python's str() of a non-negative int
NatStr(n) == IF n < 10 THEN DigitStr(n) ELSE NatStr(n \div 10) \o DigitStr(n % 10)

\* Python's str() of an int, as an f-string prints it
IntStr(n) == IF n < 0 THEN <<"-">> \o NatStr(-n) ELSE NatStr(n)

\* Python's int() on decimal text with an optional minus sign
PyInt(s) == IF s # <<>> /\ s[1] = "-" THEN -StrToInt(Tail(s)) ELSE StrToInt(s)

Spaces(n) == [k \in 1..n |-> " "]

\* the format spec :<n pads on the right and never cuts
LJust(s, n) == IF Len(s) >= n THEN s ELSE s \o Spaces(n - Len(s))

\* the format spec :>n pads on the left and never cuts
RJust(s, n) == IF Len(s) >= n THEN s ELSE Spaces(n - Len(s)) \o s

\* the characters str.split() takes as separators, of those that occur
Whitespace == {" ", "\n"}

RECURSIVE Split(_)
\* Python's s.split(): the maximal runs of non-whitespace, in order
Split(s) ==
    IF s = <<>> THEN <<>>
    ELSE IF s[1] \in Whitespace THEN Split(Tail(s))
    ELSE LET stops == {k \in 1..Len(s) : s[k] \in Whitespace}
             n == IF stops = {} THEN Len(s) + 1
                  ELSE CHOOSE k \in stops : \A j \in stops : k <= j
         IN <<SubSeq(s, 1, n - 1)>> \o Split(SubSeq(s, n, Len(s)))

----------------------------------------------------------------------------
(* Strings of the program and of the modelled desktop *)

gedit == <<"g", "e", "d", "i", "t">>
newWindow == <<"-", "-", "n", "e", "w", "-", "w", "i", "n", "d", "o", "w">>
gnomeTerminal == <<"g", "n", "o", "m", "e", "-", "t", "e", "r", "m", "i", "n", "a", "l">>
chrome == <<"c", "h", "r", "o", "m", "e">>
chromeStable == <<"/", "u", "s", "r", "/", "b", "i", "n", "/", "g", "o", "o", "g", "l", "e", "-", "c", "h", "r", "o", "m", "e", "-", "s", "t", "a", "b", "l", "e">>

\* application names of the modelled desktop
TM == <<"t", "m">>
T == <<"t">>
XY == <<"x", "y">>
PANEL == <<"p", "n">>

\* process ids, as wmctrl and ps print them
Pid1 == <<"1">>
Pid2 == <<"2">>
Pid12 == <<"1", "2">>
PidPool == {Pid1, Pid2, Pid12}
NoPid == <<>>

\* window titles; TitleB is a prefix of TitleA
TitleA == <<"a", "b">>
TitleB == <<"a">>
Host == <<"h">>

\* the n-th window id
WinId(n) == <<"w">> \o DigitStr(n)

----------------------------------------------------------------------------
(* The window manager and the process table, as the shell commands show them *)

\* one line of "wmctrl -lp": id, desktop, pid, host, title
LpLine(win) ==
    win.id \o SP \o DigitStr(win.dtop) \o SP \o win.pid \o SP \o Host \o SP \o win.title

\* get_output("wmctrl -lp").splitlines()
WmctrlLp(ws) == [k \in 1..Len(ws) |-> LpLine(ws[k])]

\* one line of "ps -e ww": pid and command line
PsLine(p) == p.pid \o SP \o p.cmd

\* get_output("ps -e ww").splitlines(), as a set
PsLines(ps) == {PsLine(p) : p \in ps}

\* pid_name(pid): the command name ps prints for the process
pid_name(ps, pid) == (CHOOSE p \in ps : p.pid = pid).comm

\* check_window(w_id): xprop shows a normal window type or the xterm class
check_window(win) == win.normal

\* the comparison of dprint turned round
DPrintShown_Inverted(lvl) == lvl >= DEBUG

\* the messages dprint lets through
DPrintShown(lvl) == lvl <= DEBUG

\* dprint(msg, lvl)
dprint(log, msg, lvl) == IF DPrintShown(lvl) THEN Append(log, msg) ELSE log

----------------------------------------------------------------------------
(* read_window_ids *)

RECURSIVE DictKeys(_, _)
\* the keys of the dict comprehension, in first-insertion order
DictKeys(ws, ps) ==
    IF ws = <<>> THEN <<>>
    ELSE LET front == DictKeys(SubSeq(ws, 1, Len(ws) - 1), ps)
             last == ws[Len(ws)]
             name == pid_name(ps, last.pid)
         IN IF check_window(last) /\ ~\E k \in 1..Len(front) : front[k] = name
            THEN Append(front, name)
            ELSE front

\* the pids compared by their first digit, as text is
PidKey_FirstDigit(win) == DigitVal(win.pid[1])

\* the key of sorted(): int(p.pid)
PidKey(win) == StrToInt(win.pid)

\* the windows in an order that changes from one run to the next
SortByPid_RunOrder(ws) ==
    IF pass = 2 THEN ws ELSE [k \in 1..Len(ws) |-> ws[Len(ws) + 1 - k]]

RECURSIVE SortByPid(_)
\* sorted(w_list, key=lambda p: int(p.pid)), a stable sort
SortByPid(ws) ==
    IF ws = <<>> THEN <<>>
    ELSE LET front == SortByPid(SubSeq(ws, 1, Len(ws) - 1))
             last == ws[Len(ws)]
             n == Cardinality({k \in 1..Len(front) : PidKey(front[k]) <= PidKey(last)})
         IN SubSeq(front, 1, n) \o <<last>> \o SubSeq(front, n + 1, Len(front))

\* the list running[name] after the appending loop: [pid, win_id] pairs
QueueFor(ws, ps, name) ==
    LET Mine(win) == check_window(win) /\ pid_name(ps, win.pid) = name
        mine == SelectSeq(SortByPid(ws), Mine)
    IN [k \in 1..Len(mine) |-> <<mine[k].pid, mine[k].id>>]

\* read_window_ids(): the dict as a sequence of items in insertion order
read_window_ids(ws, ps) ==
    LET keys == DictKeys(ws, ps)
    IN [k \in 1..Len(keys) |-> [key |-> keys[k], val |-> QueueFor(ws, ps, keys[k])]]

----------------------------------------------------------------------------
(* dict and list operations run_remembered uses *)

StrKey(s) == <<"str", s>>
IntKey(n) == <<"int", n>>

\* whether d[key] exists; every key of running is a str
DictHas(d, key) == key[1] = "str" /\ \E k \in 1..Len(d) : d[k].key = key[2]

\* d[key]
DictGet(d, key) == d[CHOOSE k \in 1..Len(d) : d[k].key = key[2]].val

\* d.pop(key)
DictPop(d, key) ==
    LET Keep(item) == item.key # key[2] IN SelectSeq(d, Keep)

\* apps = [a[0] for a in running]: the first character of every key
Apps(d) == [k \in 1..Len(d) |-> SubSeq(d[k].key, 1, 1)]

\* f.app in apps
InApps(app, apps) == \E k \in 1..Len(apps) : apps[k] = app

\* apps.index(f.app), 0-based
AppsIndex(app, apps) == (CHOOSE k \in 1..Len(apps) :
                            apps[k] = app /\ \A j \in 1..(k - 1) : apps[j] # app) - 1

\* the queue the dict holds under a name, <<>> when the name is no key
Queue(d, name) == IF DictHas(d, StrKey(name)) THEN DictGet(d, StrKey(name)) ELSE <<>>

----------------------------------------------------------------------------
(* reposition_window *)

\* the y that the -e command carries: int(y) - v_offset
GeometryY(y) == y - v_offset

\* the exit statuses the four wmctrl commands of one reposition may return:
\* all succeed, or the first and the third fail
CallOutcomes == {<<0, 0, 0, 0>>, <<1, 0, 1, 0>>}

\* the loop over cmds stopped by the first non-zero status, as check_call does
Ran_UntilFailure(rcs) ==
    IF \E k \in 1..Len(rcs) : rcs[k] # 0
    THEN CHOOSE k \in 1..Len(rcs) : rcs[k] # 0 /\ \A j \in 1..(k - 1) : rcs[j] = 0
    ELSE Len(rcs)

\* how many of the commands `for cmd in cmds: call(...)` runs: call() returns
\* the exit status, and the loop does not look at it
Ran(rcs) == Len(rcs)

\* the commands the loop ran, each with the status call() returned
RunCommands(cmdlist, rcs) ==
    [k \in 1..Ran(rcs) |-> cmdlist[k] @@ ("rc" :> rcs[k])]

\* the four commands, in the order of the cmds list
reposition_window(rec, w_id, dtop, x, y, w, h) ==
    << [rec |-> rec, win |-> w_id, op |-> "remove,maximized_horz", arg |-> <<>>],
       [rec |-> rec, win |-> w_id, op |-> "remove,maximized_vert", arg |-> <<>>],
       [rec |-> rec, win |-> w_id, op |-> "-t", arg |-> <<dtop>>],
       [rec |-> rec, win |-> w_id, op |-> "-e", arg |-> <<0, x, GeometryY(y), w, h>>] >>

\* what "wmctrl -ir w_id -t dtop" does to the window list
SetDesktop(ws, w_id, dtop) ==
    [k \in 1..Len(ws) |-> IF ws[k].id = w_id THEN [ws[k] EXCEPT !.dtop = dtop] ELSE ws[k]]

\* the window list after the commands ran: the desktop changes when the
\* third command ran and succeeded
AfterCommands(ws, w_id, dtop, rcs) ==
    IF Ran(rcs) >= 3 /\ rcs[3] = 0 THEN SetDesktop(ws, w_id, dtop) ELSE ws

----------------------------------------------------------------------------
(* open_appwindow *)

\* option: gedit opens a new tab unless told otherwise
LaunchOption(app) == IF app = gedit THEN newWindow ELSE <<>>

\* the command to run when it differs from the process name
LaunchApp(app) ==
    IF IsSubstr(gnomeTerminal, app) THEN gnomeTerminal
    ELSE IF IsSubstr(chrome, app) THEN chromeStable
    ELSE app

\* f"{app} {option}", the text handed to bash -c
LaunchCommand(app) == LaunchApp(app) \o SP \o LaunchOption(app)

\* the command line ps shows for the process the command becomes
ProcessCmd(app) ==
    LaunchApp(app) \o (IF LaunchOption(app) = <<>> THEN <<>> ELSE SP \o LaunchOption(app))

\* app = "chrome" if "chrome" in app else app
LocateName(app) == IF IsSubstr(chrome, LaunchApp(app)) THEN chrome ELSE LaunchApp(app)

\* `w not in ws1`: the line is no substring of the earlier listing
IsNew(ws1, win) == ~\E k \in 1..Len(ws1) : IsSubstr(LpLine(win), ws1[k])

\* ws2: the windows of the new listing whose line is new, in listing order
NewWins(ws1, ws) == LET New(win) == IsNew(ws1, win) IN SelectSeq(ws, New)

\* whether the inner list built for window w is non-empty:
\* some ps line has `app in p and w[2] in p`
HasProc(ps, app, win) ==
    \E p \in PsLines(ps) : IsSubstr(app, p) /\ IsSubstr(win.pid, p)

\* len(procs) > 0: procs holds one inner list per new window
AnyProcs(ws2) == Len(ws2) > 0

----------------------------------------------------------------------------
(* Inputs: saved files, desktops and viewports the pass may start from *)

\* lines of the saved file after split(): app, pid, dtop, x, y, w, h
LineTM1 == <<TM, Pid2, 0, 10, 10, 80, 24>>
LineT == <<T, Pid12, 1, 0, 100, 40, 20>>
\* a line of six fields: app, dtop, x, y, w, h
LineSix == <<TM, 0, 10, 10, 80, 24>>

Lines == {LineTM1, LineT, LineSix}

Files == UNION {[1..n -> Lines] : n \in 0..MaxRecords}

Win(n, pid, title, normal) ==
    [id |-> WinId(n), dtop |-> 0, pid |-> pid, title |-> title, normal |-> normal]

Proc(pid, name) == [pid |-> pid, comm |-> name, cmd |-> name]

\* two windows of "tm", the higher pid listed first, and a panel that is no
\* normal window; the viewport is scrolled
WorldTerms ==
    [wins |-> <<Win(1, Pid12, TitleA, TRUE), Win(2, Pid2, TitleA, TRUE),
                Win(3, Pid1, TitleA, FALSE)>>,
     procs |-> {Proc(Pid12, TM), Proc(Pid2, TM), Proc(Pid1, PANEL)},
     vp |-> <<5, 3>>]
\* one window of "xy"; the viewport is at the origin
WorldOther ==
    [wins |-> <<Win(1, Pid1, TitleB, TRUE)>>,
     procs |-> {Proc(Pid1, XY)},
     vp |-> <<0, 0>>]

Worlds == {WorldTerms, WorldOther}

----------------------------------------------------------------------------
(* run_remembered *)

NoFrame == [app |-> <<>>, dtop |-> 0, x |-> 0, y |-> 0, w |-> 0, h |-> 0, ws1 |-> <<>>]

\* f = wlist._make(this_line.split())
Fields(line) ==
    [app |-> line[1], pid |-> line[2], dtop |-> line[3],
     x |-> line[4], y |-> line[5], w |-> line[6], h |-> line[7]]

\* x = str(int(f.x) - res[0])
TargetX(f, vp) == f.x - vp[1]

\* the title bar height left out
TargetY_NoTitleBar(f, vp) == f.y - vp[2]

\* y = str(int(f.y) - res[1] - WIN_TITLE_HEIGHT)
TargetY(f, vp) == f.y - vp[2] - WIN_TITLE_HEIGHT

\* get_vpdata(): the numbers of the viewport column that are not "N/A"
get_vpdata(vp) == vp

\* the flag never consulted
DryRun_Ignored == FALSE

\* opts.dry_run, as lines 172 and 175 test it
DryRun == dry_run

\* WFILE.is_file()
FileFound == isFile

\* the bad line skipped, the loop going on
OnTypeError_Skip == "loop"

\* where the pass stands after wlist._make raised: nothing catches TypeError
OnTypeError == "crashed"

\* the line readline() returns next has the fields of wlist
WellFormed(line) == Len(line) = WlistFields

\* no invocation that may save is under way
NoFile == [exists |-> FALSE, lines |-> <<>>]
NoOpts == [save_windows |-> FALSE, no_file |-> FALSE, restore_windows |-> FALSE,
           dry_run |-> FALSE]
NoDesk == [wins |-> <<>>, procs |-> {}]

CaptureIdle ==
    /\ cpc = "off"
    /\ entry = "none"
    /\ argv = {}
    /\ opts = NoOpts
    /\ desk = NoDesk
    /\ stdout = <<>>
    /\ wfile = NoFile
    /\ wfileAtStart = NoFile
    /\ relevant = <<>>
    /\ cerr = "none"
    /\ runs = 0

\* main() has parsed "--restore --dry-run": a preview comes first, and the
\* invocation after it (Rerun) previews again or executes
Init ==
    /\ pc = "start"
    /\ err = "none"
    /\ dry_run = TRUE
    /\ isFile \in BOOLEAN
    /\ file \in Files
    /\ isFile = FALSE => file = <<>>
    /\ \E world \in Worlds :
          wins = world.wins /\ procs = world.procs /\ viewport = world.vp
    /\ res = <<>>
    /\ running = <<>>
    /\ startWins = <<>>
    /\ i = 0
    /\ frame = NoFrame
    /\ t = 0
    /\ cmds = <<>>
    /\ spawns = <<>>
    /\ plan = <<>>
    /\ stderr = <<>>
    /\ envSteps = 0
    /\ pass = 1
    /\ prevPlan = <<>>
    /\ prevDry = FALSE
    /\ CaptureIdle

\* lines 160-163 and 177-178: the queries, then the test for the file
Start ==
    /\ pc = "start"
    /\ res' = get_vpdata(viewport)
    /\ running' = read_window_ids(wins, procs)
    /\ startWins' = wins
    /\ LET log == dprint(dprint(dprint(stderr, "w_list", 1), "running", 1), "running", 1)
       IN IF FileFound
          THEN pc' = "loop" /\ stderr' = log
          ELSE pc' = "done" /\ stderr' = dprint(log, "File not found", 0)
    /\ UNCHANGED <<capVars, err, dry_run, isFile, file, wins, procs, viewport, i, frame, t, cmds,
                   spawns, plan, envSteps, pass, prevPlan, prevDry>>

\* line 165: readline() returns "" at the end of the file
Eof ==
    /\ pc = "loop"
    /\ i = Len(file)
    /\ pc' = "done"
    /\ UNCHANGED <<capVars, startWins, err, dry_run, isFile, file, wins, procs, viewport, res, running, i, frame,
                   t, cmds, spawns, plan, stderr, envSteps, pass, prevPlan, prevDry>>

\* line 166: wlist._make raises TypeError on a line without seven fields
Malformed ==
    /\ pc = "loop"
    /\ i < Len(file)
    /\ ~WellFormed(file[i + 1])
    /\ i' = i + 1
    /\ pc' = OnTypeError
    /\ err' = "TypeError"
    /\ UNCHANGED <<capVars, startWins, dry_run, isFile, file, wins, procs, viewport, res, running, frame, t, cmds,
                   spawns, plan, stderr, envSteps, pass, prevPlan, prevDry>>

\* lines 170-174: f.app is one of the first characters in apps
MatchBranch ==
    /\ pc = "loop"
    /\ i < Len(file)
    /\ WellFormed(file[i + 1])
    /\ LET f == Fields(file[i + 1])
           apps == Apps(running)
           key == IntKey(AppsIndex(f.app, apps))
       IN /\ InApps(f.app, apps)
          /\ i' = i + 1
          /\ IF DictHas(running, key)
             THEN /\ plan' = Append(plan, [rec |-> i + 1, app |-> f.app, branch |-> "match",
                                           queue |-> Queue(running, f.app),
                                           popped |-> DictGet(running, key)])
                  /\ \E rcs \in (IF DryRun THEN {<<0, 0, 0, 0>>} ELSE CallOutcomes) :
                        /\ cmds' = IF DryRun THEN cmds
                                   ELSE cmds \o RunCommands(
                                            reposition_window(i + 1, DictGet(running, key)[2],
                                                f.dtop, TargetX(f, res), TargetY(f, res),
                                                f.w, f.h), rcs)
                        /\ wins' = IF DryRun THEN wins
                                   ELSE AfterCommands(wins, DictGet(running, key)[2], f.dtop, rcs)
                  /\ running' = DictPop(running, key)
                  /\ UNCHANGED <<capVars, startWins, viewport, pc, err>>
             ELSE /\ plan' = Append(plan, [rec |-> i + 1, app |-> f.app, branch |-> "match",
                                           queue |-> Queue(running, f.app), popped |-> <<>>])
                  /\ pc' = "crashed"
                  /\ err' = "KeyError"
                  /\ UNCHANGED <<capVars, startWins, viewport, cmds, wins, running>>
    /\ UNCHANGED <<capVars, startWins, dry_run, isFile, file, procs, viewport, res, frame, t, spawns, stderr,
                   envSteps, pass, prevPlan, prevDry>>

\* line 175 with dry_run set: neither branch runs
DrySkip ==
    /\ pc = "loop"
    /\ i < Len(file)
    /\ WellFormed(file[i + 1])
    /\ DryRun
    /\ LET f == Fields(file[i + 1])
       IN /\ ~InApps(f.app, Apps(running))
          /\ plan' = Append(plan, [rec |-> i + 1, app |-> f.app, branch |-> "nomatch",
                                   queue |-> Queue(running, f.app), popped |-> <<>>])
    /\ i' = i + 1
    /\ UNCHANGED <<capVars, startWins, pc, err, dry_run, isFile, file, wins, procs, viewport, res, running, frame, t,
                   cmds, spawns, stderr, envSteps, pass, prevPlan, prevDry>>

\* the command started and not waited for
AfterSpawn_Detached == "loop"

\* lines 128-134: Popen returns at once, and the pass enters the poll loop
AfterSpawn == "poll"

\* lines 175-176 and 116-133: open_appwindow up to the poll loop.  Popen
\* starts the command; the process it becomes gets a free pid, or is gone
\* before the first poll.
Launch ==
    /\ pc = "loop"
    /\ i < Len(file)
    /\ WellFormed(file[i + 1])
    /\ ~DryRun
    /\ LET f == Fields(file[i + 1])
       IN /\ ~InApps(f.app, Apps(running))
          /\ plan' = Append(plan, [rec |-> i + 1, app |-> f.app, branch |-> "nomatch",
                                   queue |-> Queue(running, f.app), popped |-> <<>>])
          /\ frame' = [app |-> LocateName(f.app), dtop |-> f.dtop,
                       x |-> TargetX(f, res), y |-> TargetY(f, res),
                       w |-> f.w, h |-> f.h, ws1 |-> WmctrlLp(wins)]
          /\ spawns' = Append(spawns,
                [rec |-> i + 1, app |-> f.app, cmd |-> LaunchCommand(f.app),
                 args |-> <<f.app, f.dtop, TargetX(f, res), TargetY(f, res), f.w, f.h>>,
                 before |-> {wins[k].id : k \in 1..Len(wins)}])
          /\ \E pid \in (PidPool \ {p.pid : p \in procs}) \cup {NoPid} :
                procs' = IF pid = NoPid THEN procs
                         ELSE procs \cup {[pid |-> pid, comm |-> LocateName(f.app),
                                           cmd |-> ProcessCmd(f.app)]}
    /\ i' = i + 1
    /\ t' = 0
    /\ pc' = AfterSpawn
    /\ UNCHANGED <<capVars, startWins, viewport, err, dry_run, isFile, file, wins, res, running, cmds, stderr,
                   envSteps, pass, prevPlan, prevDry>>

\* line 134: the loop ends when t reaches MAX_TRIES
PollTimeout ==
    /\ pc = "poll"
    /\ ~(t < MAX_TRIES)
    /\ pc' = "loop"
    /\ frame' = NoFrame
    /\ t' = 0
    /\ UNCHANGED <<capVars, startWins, err, dry_run, isFile, file, wins, procs, viewport, res, running, i, cmds,
                   spawns, plan, stderr, envSteps, pass, prevPlan, prevDry>>

\* lines 135-137, 142-143: no new line in the listing
PollMiss ==
    /\ pc = "poll"
    /\ t < MAX_TRIES
    /\ ~AnyProcs(NewWins(frame.ws1, wins))
    /\ t' = t + 1
    /\ UNCHANGED <<capVars, startWins, pc, err, dry_run, isFile, file, wins, procs, viewport, res, running, i, frame,
                   cmds, spawns, plan, stderr, envSteps, pass, prevPlan, prevDry>>

\* the loop going on after the reposition
AfterReposition_KeepPolling == "poll"

\* line 141: break leaves the poll loop, and open_appwindow returns
AfterReposition == "loop"

\* lines 137-141: procs[0][0][1] is the id of the first new window
PollFound ==
    /\ pc = "poll"
    /\ t < MAX_TRIES
    /\ LET ws2 == NewWins(frame.ws1, wins)
       IN /\ AnyProcs(ws2)
          /\ HasProc(procs, frame.app, ws2[1])
          /\ \E rcs \in CallOutcomes :
                /\ cmds' = cmds \o RunCommands(
                                reposition_window(i, ws2[1].id, frame.dtop, frame.x,
                                                  frame.y, frame.w, frame.h), rcs)
                /\ wins' = AfterCommands(wins, ws2[1].id, frame.dtop, rcs)
    /\ pc' = AfterReposition
    /\ frame' = NoFrame
    /\ t' = 0
    /\ UNCHANGED <<capVars, startWins, err, dry_run, isFile, file, procs, viewport, res, running, i, spawns, plan,
                   stderr, envSteps, pass, prevPlan, prevDry>>

\* line 139: procs[0] is empty, procs[0][0] raises IndexError
PollCrash ==
    /\ pc = "poll"
    /\ t < MAX_TRIES
    /\ LET ws2 == NewWins(frame.ws1, wins)
       IN /\ AnyProcs(ws2)
          /\ ~HasProc(procs, frame.app, ws2[1])
    /\ pc' = "crashed"
    /\ err' = "IndexError"
    /\ UNCHANGED <<capVars, startWins, dry_run, isFile, file, wins, procs, viewport, res, running, i, frame, t, cmds,
                   spawns, plan, stderr, envSteps, pass, prevPlan, prevDry>>

----------------------------------------------------------------------------
(* The desktop while open_appwindow sleeps *)

\* a process of the table maps a new window
EnvOpenWindow ==
    /\ pc = "poll"
    /\ t < EnvHorizon
    /\ envSteps < MaxEnvSteps
    /\ envSteps' = envSteps + 1
    /\ \E p \in procs :
          wins' = Append(wins, [id |-> WinId(Len(wins) + 1), dtop |-> 0, pid |-> p.pid,
                                title |-> TitleB, normal |-> TRUE])
    /\ UNCHANGED <<capVars, startWins, pc, err, dry_run, isFile, file, procs, viewport, res, running, i, frame, t,
                   cmds, spawns, plan, stderr, pass, prevPlan, prevDry>>

\* a window changes its title
EnvRetitle ==
    /\ pc = "poll"
    /\ t < EnvHorizon
    /\ envSteps < MaxEnvSteps
    /\ \E k \in 1..Len(wins) :
          wins' = [wins EXCEPT ![k].title = IF @ = TitleA THEN TitleB ELSE TitleA]
    /\ envSteps' = envSteps + 1
    /\ UNCHANGED <<capVars, startWins, pc, err, dry_run, isFile, file, procs, viewport, res, running, i, frame, t,
                   cmds, spawns, plan, stderr, pass, prevPlan, prevDry>>

----------------------------------------------------------------------------
(* The next invocation with --restore, with or without --dry-run, on the   *)
(* desktop and the saved file the preview left as they were                *)

Rerun ==
    /\ pc \in {"done", "crashed"}
    /\ pass = 1
    /\ dry_run
    /\ pass' = 2
    /\ prevPlan' = plan
    /\ prevDry' = dry_run
    /\ dry_run' \in BOOLEAN
    /\ pc' = "start"
    /\ err' = "none"
    /\ res' = <<>>
    /\ running' = <<>>
    /\ i' = 0
    /\ plan' = <<>>
    /\ stderr' = <<>>
    /\ UNCHANGED <<capVars, startWins, isFile, file, wins, procs, viewport, frame, t, cmds, spawns, envSteps>>

Next ==
    \/ Start
    \/ Eof
    \/ Malformed
    \/ MatchBranch
    \/ DrySkip
    \/ Launch
    \/ PollTimeout
    \/ PollMiss
    \/ PollFound
    \/ PollCrash
    \/ EnvOpenWindow
    \/ EnvRetitle
    \/ Rerun

Spec == Init /\ [][Next]_vars

----------------------------------------------------------------------------
(* Saving: main's argument parsing and read_windows *)

\* the flags of the parser; "-n" is --no-file
Flags == {"-s", "-n", "-r", "-d"}

\* action="store_true": True when the flag is given, the default otherwise
StoreTrue(flag, default, given) == IF flag \in given THEN TRUE ELSE default

\* --no-file declared with default=False
NoFileDefault_False == FALSE

\* line 205: default=True for --no-file
NoFileDefault == TRUE

\* parser.parse_args(args)
parse_args(given) ==
    [save_windows |-> StoreTrue("-s", FALSE, given),
     no_file |-> StoreTrue("-n", NoFileDefault, given),
     restore_windows |-> StoreTrue("-r", FALSE, given),
     dry_run |-> StoreTrue("-d", FALSE, given)]

\* lines 232-240: save wins over restore; with neither, main returns
Dispatch(o) ==
    IF o.save_windows THEN "read_windows"
    ELSE IF o.restore_windows THEN "run_remembered"
    ELSE "exit"

\* format_relevant without the pid column: six fields
format_relevant_NoPid(r) ==
    LJust(r.app, 15) \o SP \o RJust(IntStr(r.geo[1]), 2)
        \o SP \o RJust(IntStr(r.geo[2]), 5) \o SP \o RJust(IntStr(r.geo[3]), 5)
        \o SP \o RJust(IntStr(r.geo[4]), 5) \o SP \o RJust(IntStr(r.geo[5]), 5)

\* format_relevant(r): app_name, PID, desktop_num, x, y, w, h
format_relevant(r) ==
    LJust(r.app, 15) \o SP \o RJust(r.pid, 8) \o SP \o RJust(IntStr(r.geo[1]), 2)
        \o SP \o RJust(IntStr(r.geo[2]), 5) \o SP \o RJust(IntStr(r.geo[3]), 5)
        \o SP \o RJust(IntStr(r.geo[4]), 5) \o SP \o RJust(IntStr(r.geo[5]), 5)

\* get_output raises CalledProcessError when xprop exits non-zero, as it does
\* for a window that is gone; check_window is asked of every listed window
XpropFails(ws) == \E k \in 1..Len(ws) : ws[k].gone

\* the list `relevant`: [pid_name(w.pid), w.pid, [int(n) for n in ...]] of
\* the windows check_window accepts, in listing order
Relevant(ws, ps) ==
    LET kept == SelectSeq(ws, check_window)
    IN [k \in 1..Len(kept) |->
           [app |-> pid_name(ps, kept[k].pid), pid |-> kept[k].pid,
            geo |-> <<PyInt(kept[k].dtop), PyInt(kept[k].x), PyInt(kept[k].y),
                      PyInt(kept[k].width), PyInt(kept[k].height)>>]]

\* the file in append mode
open_at(old, lines) == [exists |-> TRUE, lines |-> old.lines \o lines]

\* open(WFILE, "wt") and the writes: the file is created or cut to nothing,
\* then holds the lines written
open_wt(old, lines) == [exists |-> TRUE, lines |-> lines]

\* the lines print() and out.write() put out: each ends with a newline
OutLines(rel) == [k \in 1..Len(rel) |-> format_relevant(rel[k]) \o NL]

\* wlist._make(this_line.split()) of a line of the file, when it has the
\* fields of wlist
wlist_make(line) ==
    LET f == Split(line)
    IN [app |-> f[1], pid |-> f[2], dtop |-> f[3], x |-> f[4], y |-> f[5],
        w |-> f[6], h |-> f[7]]

\* whether wlist._make accepts the line
Accepted(line) == Len(Split(line)) = WlistFields

(* Desktops a save may see *)

\* a line of "wmctrl -lpG" as lpg holds it, and what xprop does for the window
CWin(n, dtop, pid, x, y, width, height, normal, gone) ==
    [win_id |-> WinId(n), dtop |-> dtop, pid |-> pid, x |-> x, y |-> y,
     width |-> width, height |-> height, normal |-> normal, gone |-> gone]

GnomeTerminalComm == gnomeTerminal \o <<"-">>
WebContent == <<"W", "e", "b", " ", "C">>

\* two windows of "tm", the higher pid listed first, one of them sticky, off
\* the screen to the left and very wide; and a panel
DeskTerms ==
    [wins |-> <<CWin(1, <<"0">>, Pid12, <<"1", "0">>, <<"3", "4">>, <<"8", "0">>,
                     <<"2", "4">>, TRUE, FALSE),
                CWin(2, <<"-", "1">>, Pid2, <<"-", "1", "4">>, <<"1", "0", "0">>,
                     <<"1", "2", "3", "4", "5", "6">>, <<"2", "0">>, TRUE, FALSE),
                CWin(3, <<"0">>, Pid1, <<"0">>, <<"0">>, <<"9", "9">>, <<"5">>,
                     FALSE, FALSE)>>,
     procs |-> {Proc(Pid12, TM), Proc(Pid2, TM), Proc(Pid1, PANEL)}]

\* a window whose process name fills the fifteen columns
DeskLong ==
    [wins |-> <<CWin(1, <<"1">>, Pid1, <<"0">>, <<"2", "4">>, <<"4", "0">>,
                     <<"2", "0">>, TRUE, FALSE)>>,
     procs |-> {Proc(Pid1, GnomeTerminalComm)}]

\* the second of three windows is gone when xprop asks for it
DeskGone ==
    [wins |-> <<CWin(1, <<"0">>, Pid1, <<"0">>, <<"2", "4">>, <<"4", "0">>,
                     <<"2", "0">>, TRUE, FALSE),
                CWin(2, <<"0">>, Pid2, <<"5">>, <<"5">>, <<"4", "0">>,
                     <<"2", "0">>, TRUE, TRUE),
                CWin(3, <<"0">>, Pid12, <<"7">>, <<"7">>, <<"4", "0">>,
                     <<"2", "0">>, TRUE, FALSE)>>,
     procs |-> {Proc(Pid1, XY), Proc(Pid2, TM), Proc(Pid12, T)}]

\* a process whose name has a blank in it
DeskBlank ==
    [wins |-> <<CWin(1, <<"0">>, Pid2, <<"3">>, <<"4">>, <<"5">>, <<"6">>,
                     TRUE, FALSE)>>,
     procs |-> {Proc(Pid2, WebContent)}]

\* nothing but a panel
DeskBare ==
    [wins |-> <<CWin(1, <<"0">>, Pid1, <<"0">>, <<"0">>, <<"9", "9">>, <<"5">>,
                     FALSE, FALSE)>>,
     procs |-> {Proc(Pid1, PANEL)}]

Desks == {DeskTerms, DeskLong, DeskGone, DeskBlank, DeskBare}

\* what may be on disk before the first invocation: nothing, or the lines an
\* earlier save of DeskLong wrote
FilesOnDisk == {NoFile, open_wt(NoFile, OutLines(Relevant(DeskLong.wins, DeskLong.procs)))}

\* how an invocation begins: main() with some flags, or read_windows(opts)
\* called with a Namespace of the caller's making
Entries ==
    {[entry |-> "main", argv |-> g, opts |-> NoOpts, cpc |-> "main"] : g \in SUBSET Flags}
    \cup
    {[entry |-> "read_windows", argv |-> {},
      opts |-> [NoOpts EXCEPT !.save_windows = TRUE, !.no_file = b],
      cpc |-> "read_windows"] : b \in BOOLEAN}

\* no restore pass is under way
RestoreIdle ==
    /\ pc = "off"
    /\ err = "none"
    /\ dry_run = FALSE
    /\ isFile = FALSE
    /\ file = <<>>
    /\ wins = <<>>
    /\ procs = {}
    /\ viewport = <<0, 0>>
    /\ res = <<>>
    /\ running = <<>>
    /\ startWins = <<>>
    /\ i = 0
    /\ frame = NoFrame
    /\ t = 0
    /\ cmds = <<>>
    /\ spawns = <<>>
    /\ plan = <<>>
    /\ envSteps = 0
    /\ pass = 1
    /\ prevPlan = <<>>
    /\ prevDry = FALSE

InitSave ==
    /\ RestoreIdle
    /\ stderr = <<>>
    /\ \E e \in Entries :
          entry = e.entry /\ argv = e.argv /\ opts = e.opts /\ cpc = e.cpc
    /\ desk \in Desks
    /\ wfile \in FilesOnDisk
    /\ wfileAtStart = wfile
    /\ stdout = <<>>
    /\ relevant = <<>>
    /\ cerr = "none"
    /\ runs = 1

\* lines 188-240: parse the flags, then save, restore or return
Main ==
    /\ cpc = "main"
    /\ opts' = parse_args(argv)
    /\ cpc' = Dispatch(parse_args(argv))
    /\ UNCHANGED <<restoreVars, stderr, entry, argv, desk, stdout, wfile, wfileAtStart,
                   relevant, cerr, runs>>

\* lines 85-99: list, classify, then print or write
ReadWindows ==
    /\ cpc = "read_windows"
    /\ ~XpropFails(desk.wins)
    /\ relevant' = Relevant(desk.wins, desk.procs)
    /\ stderr' = dprint(dprint(stderr, "w_list", 1), "relevant", 1)
    /\ IF opts.no_file
       THEN /\ stdout' = stdout \o OutLines(relevant')
            /\ wfile' = wfile
       ELSE /\ wfile' = open_wt(wfile, OutLines(relevant'))
            /\ stdout' = stdout
    /\ cpc' = "exit"
    /\ UNCHANGED <<restoreVars, entry, argv, opts, desk, wfileAtStart, cerr, runs>>

\* lines 85-90: check_window raises inside the comprehension; nothing
\* catches it, and nothing has been printed or opened yet
ReadWindowsRaises ==
    /\ cpc = "read_windows"
    /\ XpropFails(desk.wins)
    /\ stderr' = dprint(stderr, "w_list", 1)
    /\ cerr' = "CalledProcessError"
    /\ cpc' = "crashed"
    /\ UNCHANGED <<restoreVars, entry, argv, opts, desk, stdout, wfile, wfileAtStart,
                   relevant, runs>>

\* lines 236-240: the restore pass, which opens WFILE for reading only
\* (line 164), then return 0
RestoreReturns ==
    /\ cpc = "run_remembered"
    /\ cpc' = "exit"
    /\ UNCHANGED <<restoreVars, stderr, entry, argv, opts, desk, stdout, wfile,
                   wfileAtStart, relevant, cerr, runs>>

\* the next invocation, on the desktop as it is by then and the file as the
\* invocations before left it
NextInvocation ==
    /\ cpc \in {"exit", "crashed"}
    /\ runs < MaxInvocations
    /\ runs' = runs + 1
    /\ \E e \in Entries :
          entry' = e.entry /\ argv' = e.argv /\ opts' = e.opts /\ cpc' = e.cpc
    /\ desk' \in Desks
    /\ wfileAtStart' = wfile
    /\ stdout' = <<>>
    /\ relevant' = <<>>
    /\ cerr' = "none"
    /\ stderr' = <<>>
    /\ UNCHANGED <<restoreVars, wfile>>

NextSave ==
    \/ Main
    \/ ReadWindows
    \/ ReadWindowsRaises
    \/ RestoreReturns
    \/ NextInvocation

SpecSave == InitSave /\ [][NextSave]_vars

----------------------------------------------------------------------------
(* Vocabulary of the properties *)

\* the well-formed saved records
SavedRecs == {k \in 1..Len(file) : WellFormed(file[k])}

\* the saved record a command or a spawn was issued for
Saved(k) == Fields(file[k])

\* the positions of the commands and spawns issued so far
CmdIdx == 1..Len(cmds)
SpawnIdx == 1..Len(spawns)
PlanIdx == 1..Len(plan)

\* a restore that executes has passed its queries
Executing == ~dry_run /\ pc # "start"

\* the window with the given id, as the window manager holds it now
WinOf(id) == wins[CHOOSE k \in 1..Len(wins) : wins[k].id = id]

\* the window belongs to a process whose command line contains the name
OwnedBy(id, name) ==
    \E p \in procs : p.pid = WinOf(id).pid /\ IsSubstr(name, p.cmd)

----------------------------------------------------------------------------
(* C1: in an executing restore, every record whose app_name had a non-empty *)
(* queue in the running index when it was looked up took the match branch, *)
(* the set-geometry command of that record targets the head (lowest-pid)   *)
(* handle of that queue, the handle has left the queue, and nothing was    *)
(* spawned for the record.                                                 *)
C1_MatchDequeuesHead ==
    Executing =>
        \A k \in PlanIdx :
            plan[k].queue # <<>> =>
                /\ plan[k].branch = "match"
                /\ \E c \in CmdIdx : /\ cmds[c].rec = plan[k].rec
                                     /\ cmds[c].op = "-e"
                                     /\ cmds[c].win = plan[k].queue[1][2]
                /\ \A j \in 1..Len(Queue(running, plan[k].app)) :
                      Queue(running, plan[k].app)[j] # plan[k].queue[1]
                /\ \A n \in SpawnIdx : spawns[n].rec # plan[k].rec

----------------------------------------------------------------------------
(* C2: within one pass no window id is the target of commands issued for   *)
(* two different saved records, and no handle is taken from the running    *)
(* index for two different records.                                        *)
C2_AtMostOneAssignment ==
    /\ \A a, b \in CmdIdx : cmds[a].win = cmds[b].win => cmds[a].rec = cmds[b].rec
    /\ \A a, b \in PlanIdx :
          (plan[a].popped # <<>> /\ plan[a].popped = plan[b].popped) => a = b

----------------------------------------------------------------------------
(* C3: a normal window that was open when the pass started and whose       *)
(* application name is the app_name of no saved record is the target of no *)
(* command, and no spawn runs its application.                             *)
C3_LeftoverUntouched ==
    \A k \in 1..Len(startWins) :
        LET win == startWins[k]
            name == pid_name(procs, win.pid)
        IN (check_window(win) /\ \A r \in SavedRecs : Saved(r).app # name) =>
               /\ \A c \in CmdIdx : cmds[c].win # win.id
               /\ \A n \in SpawnIdx : LaunchApp(spawns[n].app) # name

----------------------------------------------------------------------------
(* C4: a dry run issues no WM command and no spawn and leaves the windows  *)
(* as they were; and an executing restore over the same saved file and the *)
(* same running set takes, for every record it reaches, the branch the dry *)
(* run took (same record, same match/no-match decision, same handle taken  *)
(* from the index), reaching no record the dry run did not reach.          *)
C4_DryRunSamePlanNoEffects ==
    /\ dry_run => cmds = <<>> /\ spawns = <<>>
    /\ (dry_run /\ pc # "start") => wins = startWins
    /\ (pass = 2 /\ prevDry /\ ~dry_run) =>
          /\ Len(plan) <= Len(prevPlan)
          /\ \A k \in PlanIdx : plan[k] = prevPlan[k]

\* a dry run decided two records, and the executing restore after it
\* decided the same two and spawned for both
C4_Witness ==
    /\ pass = 2 /\ prevDry /\ ~dry_run
    /\ Len(prevPlan) = 2 /\ Len(plan) = 2 /\ Len(spawns) = 2

----------------------------------------------------------------------------
(* C5 as stated: every set-geometry command carries                        *)
(* (r.x - dx, r.y - dy - TITLE_BAR_HEIGHT, r.width, r.height) of the saved *)
(* record r it was issued for.                                             *)
C5_GeometryAsClaimed ==
    \A c \in CmdIdx :
        cmds[c].op = "-e" =>
            LET r == Saved(cmds[c].rec)
            IN SubSeq(cmds[c].arg, 2, 5) =
                   <<r.x - viewport[1], r.y - viewport[2] - WIN_TITLE_HEIGHT, r.w, r.h>>

(* C5 amended: every set-geometry command carries gravity 0 and            *)
(* (r.x - dx, r.y - dy - 24 - 35, r.width, r.height): reposition_window    *)
(* subtracts its own vertical offset of 35 from the corrected target y.    *)
C5_GeometryCorrected ==
    \A c \in CmdIdx :
        cmds[c].op = "-e" =>
            LET r == Saved(cmds[c].rec)
            IN cmds[c].arg =
                   <<0, r.x - viewport[1],
                     r.y - viewport[2] - (WIN_TITLE_HEIGHT + v_offset), r.w, r.h>>

\* with offset (0,0) a saved y = 100 has been placed at y = 41
C5_Witness ==
    \E c \in CmdIdx :
        /\ cmds[c].op = "-e"
        /\ viewport = <<0, 0>>
        /\ Saved(cmds[c].rec).y = 100
        /\ cmds[c].arg[3] = 41

----------------------------------------------------------------------------
(* C6: in an executing restore, every record whose app_name had no handle  *)
(* in the running index when it was looked up has had Launch-and-Locate    *)
(* invoked with (r.app_name, r.desktop_id, r.x - dx, r.y - dy - 24,        *)
(* r.width, r.height), and every command issued for that record targets a  *)
(* window that was not in the snapshot taken before the spawn and belongs  *)
(* to a process whose command line contains r.app_name.                    *)
C6_NoMatchLaunches ==
    Executing =>
        \A k \in PlanIdx :
            plan[k].queue = <<>> =>
                LET r == Saved(plan[k].rec)
                IN \E n \in SpawnIdx :
                      /\ spawns[n].rec = plan[k].rec
                      /\ spawns[n].args =
                            <<r.app, r.dtop, r.x - viewport[1],
                              r.y - viewport[2] - WIN_TITLE_HEIGHT, r.w, r.h>>
                      /\ \A c \in CmdIdx :
                            cmds[c].rec = plan[k].rec =>
                                /\ cmds[c].win \notin spawns[n].before
                                /\ OwnedBy(cmds[c].win, r.app)

----------------------------------------------------------------------------
(* C7: every window Launch-and-Locate repositions was absent from the      *)
(* window list taken before the spawn and belongs to a process whose       *)
(* command line contains the name of the application being located.        *)
C7_LocatedWindowNewAndOwned ==
    \A c \in CmdIdx : \A n \in SpawnIdx :
        spawns[n].rec = cmds[c].rec =>
            /\ cmds[c].win \notin spawns[n].before
            /\ OwnedBy(cmds[c].win, LocateName(spawns[n].app))

----------------------------------------------------------------------------
\* no window that is new since the n-th spawn belongs to a process of the
\* application that spawn locates
NoTargetWindow(n) ==
    \A k \in 1..Len(wins) :
        wins[k].id \notin spawns[n].before =>
            ~OwnedBy(wins[k].id, LocateName(spawns[n].app))

(* C8: Launch-and-Locate makes at most 30 polls, and as long as no window  *)
(* that is new since the spawn belongs to a process of the located         *)
(* application, no command has been issued for the record and the launch   *)
(* has not ended in an error.                                              *)
C8_LocateEndsQuietly ==
    /\ t <= MAX_TRIES
    /\ \A n \in SpawnIdx :
          NoTargetWindow(n) =>
              /\ \A c \in CmdIdx : cmds[c].rec # spawns[n].rec
              /\ ~(pc = "crashed" /\ i = spawns[n].rec)

----------------------------------------------------------------------------
\* the number of the first line with a wrong field count, Len(file) + 1 if none
FirstBad ==
    IF \E k \in 1..Len(file) : ~WellFormed(file[k])
    THEN CHOOSE k \in 1..Len(file) :
             ~WellFormed(file[k]) /\ \A j \in 1..(k - 1) : WellFormed(file[j])
    ELSE Len(file) + 1

(* C9 as stated: when some line of the file has a wrong field count, no WM *)
(* command and no spawn is issued for any record of the file.              *)
C9_NoPartialApplication ==
    FirstBad <= Len(file) => cmds = <<>> /\ spawns = <<>>

(* C9 amended: the restore aborts at the first line with a wrong field     *)
(* count: the pass ends there with a TypeError, and no command, spawn or   *)
(* decision exists for that line or any line after it; the records before  *)
(* it have been handled, since lines are read one at a time between the    *)
(* mutations.                                                              *)
C9_AbortsAtMalformedLine ==
    /\ \A c \in CmdIdx : cmds[c].rec < FirstBad
    /\ \A n \in SpawnIdx : spawns[n].rec < FirstBad
    /\ \A k \in PlanIdx : plan[k].rec < FirstBad
    /\ i <= FirstBad
    /\ i = FirstBad => pc = "crashed" /\ err = "TypeError"

\* the pass ended at a malformed line after it spawned and repositioned
\* for a record before it
C9_Witness ==
    /\ pc = "crashed" /\ err = "TypeError"
    /\ i = 2
    /\ Len(spawns) = 1
    /\ Len(cmds) = 4

----------------------------------------------------------------------------
(* C10: when the saved file is missing, the restore reports "File not      *)
(* found" and ends normally with no WM command issued, no spawn and the    *)
(* windows as they were.                                                   *)
C10_MissingFileTouchesNothing ==
    (~isFile /\ pc # "start") =>
        /\ pc = "done"
        /\ err = "none"
        /\ \E m \in 1..Len(stderr) : stderr[m] = "File not found"
        /\ cmds = <<>>
        /\ spawns = <<>>
        /\ wins = startWins

\* a restore without a saved file has ended on a desktop that has windows
C10_Witness ==
    ~isFile /\ pc = "done" /\ pass = 2 /\ ~dry_run /\ Len(startWins) > 0

----------------------------------------------------------------------------
\* a save has run to its end
SaveDone == cpc = "exit" /\ opts.save_windows

\* the lines the save put out, on standard output or into the file
SavedLines == IF opts.no_file THEN stdout ELSE wfile.lines

\* an application name load can take as one field
NoBlank(name) == name # <<>> /\ \A k \in 1..Len(name) : name[k] \notin Whitespace

(* C11: when a save has put out the records of a snapshot whose app names  *)
(* hold no whitespace, there is one line per record, in snapshot order,    *)
(* every line is accepted by wlist._make, and the fields read back are the *)
(* record's app_name, desktop_id, x, y, width and height.                  *)
C11_RoundTrip ==
    (SaveDone /\ \A k \in 1..Len(relevant) : NoBlank(relevant[k].app)) =>
        /\ Len(SavedLines) = Len(relevant)
        /\ \A k \in 1..Len(relevant) :
              /\ Accepted(SavedLines[k])
              /\ LET f == wlist_make(SavedLines[k])
                     r == relevant[k]
                 IN /\ f.app = r.app
                    /\ f.dtop = IntStr(r.geo[1])
                    /\ PyInt(f.x) = r.geo[2]
                    /\ PyInt(f.y) = r.geo[3]
                    /\ f.w = IntStr(r.geo[4])
                    /\ f.h = IntStr(r.geo[5])

\* two records were written to the file, the second sticky, with a negative
\* x and a width of six digits
C11_Witness ==
    /\ SaveDone /\ ~opts.no_file
    /\ Len(relevant) = 2
    /\ relevant[2].geo = <<-1, -14, 100, 123456, 20>>
    /\ Len(wfile.lines) = 2

----------------------------------------------------------------------------
(* C12: after a save whose destination is the file, the file holds exactly *)
(* the lines of that save's snapshot (the windows check_window accepts, in *)
(* listing order) and nothing of what it held before, whatever saves came  *)
(* earlier.                                                                *)
C12_CaptureOverwrites ==
    (SaveDone /\ ~opts.no_file) =>
        /\ relevant = Relevant(desk.wins, desk.procs)
        /\ wfile.exists
        /\ Len(wfile.lines) = Len(relevant)
        /\ \A k \in 1..Len(relevant) :
              wfile.lines[k] = format_relevant(relevant[k]) \o NL

\* a second save went to the file, which held the lines of an earlier save
\* of another desktop
C12_Witness ==
    /\ SaveDone /\ ~opts.no_file
    /\ runs = 2
    /\ wfileAtStart.lines # <<>>
    /\ wfile.lines # wfileAtStart.lines

----------------------------------------------------------------------------
----------------------------------------------------------------------------
\* the four operations of a reposition, in order
RepositionOps == <<"remove,maximized_horz", "remove,maximized_vert", "-t", "-e">>

(* C14: the WM commands come in groups of four: clear horizontal-maximized, *)
(* clear vertical-maximized, set desktop, set geometry, all against one    *)
(* window id for one record, whatever exit status each command returned;   *)
(* and a pass that ended in an error ended before any command was issued   *)
(* for the record it was at.                                               *)
C14_FourCommandsInOrder ==
    /\ Len(cmds) % 4 = 0
    /\ \A g \in 0..((Len(cmds) \div 4) - 1) : \A k \in 1..4 :
          /\ cmds[4 * g + k].op = RepositionOps[k]
          /\ cmds[4 * g + k].win = cmds[4 * g + 1].win
          /\ cmds[4 * g + k].rec = cmds[4 * g + 1].rec
    /\ pc = "crashed" => \A c \in CmdIdx : cmds[c].rec # i

\* a reposition whose first command failed was followed by its other three
\* commands, and the pass went on to the end of the file
C14_Witness ==
    /\ pc = "done"
    /\ Len(cmds) = 4
    /\ cmds[1].rc = 1
    /\ cmds[3].rc = 1
    /\ cmds[4].op = "-e"

----------------------------------------------------------------------------
\* the running index as read_window_ids built it, nothing popped yet
IndexFresh == pc \in {"loop", "done"} /\ plan = <<>> /\ i = 0

(* C15: the running index, as built, has one key per application name of a *)
(* normal window, and the queue under a name holds exactly the normal      *)
(* windows of that application, by ascending numeric process id, no        *)
(* window id twice in one queue or in two queues.                          *)
C15_RunningIndexOrdered ==
    IndexFresh =>
        /\ \A a, b \in 1..Len(running) : running[a].key = running[b].key => a = b
        /\ \A k \in 1..Len(startWins) :
              check_window(startWins[k]) =>
                  \E j \in 1..Len(Queue(running, pid_name(procs, startWins[k].pid))) :
                      Queue(running, pid_name(procs, startWins[k].pid))[j] =
                          <<startWins[k].pid, startWins[k].id>>
        /\ \A a \in 1..Len(running) :
              LET q == running[a].val
              IN /\ q # <<>>
                 /\ \A j \in 1..Len(q) :
                       \E k \in 1..Len(startWins) :
                           /\ check_window(startWins[k])
                           /\ q[j] = <<startWins[k].pid, startWins[k].id>>
                           /\ pid_name(procs, startWins[k].pid) = running[a].key
                 /\ \A j, k \in 1..Len(q) : j < k => StrToInt(q[j][1]) <= StrToInt(q[k][1])
                 /\ \A b \in 1..Len(running) : \A j \in 1..Len(q) :
                       \A k \in 1..Len(running[b].val) :
                           q[j][2] = running[b].val[k][2] => (a = b /\ j = k)

\* the window of pid 12 is listed before the window of pid 2, and the queue
\* holds pid 2 before pid 12
C15_Witness ==
    /\ IndexFresh
    /\ startWins[1].pid = Pid12
    /\ Queue(running, TM) = <<(<<Pid2, WinId(2)>>), (<<Pid12, WinId(1)>>)>>

----------------------------------------------------------------------------
(* C16: an executing restore over a file of well-formed lines does not end *)
(* in an error, and when it has ended every line was read and every record *)
(* has exactly one decision: a spawn, or else the reposition of a window   *)
(* taken from the running index.                                           *)
C16_EveryRecordDecided ==
    (Executing /\ \A k \in 1..Len(file) : WellFormed(file[k])) =>
        /\ pc # "crashed"
        /\ pc = "done" =>
              /\ i = Len(file)
              /\ \A r \in 1..Len(file) :
                    /\ Cardinality({k \in PlanIdx : plan[k].rec = r}) = 1
                    /\ (\E n \in SpawnIdx : spawns[n].rec = r)
                           \/ (\E k \in PlanIdx : plan[k].rec = r /\ plan[k].popped # <<>>)

----------------------------------------------------------------------------
(* C17: no record is spawned for twice; the commands issued for a spawned  *)
(* record are at most four and target one window; and while the poll loop  *)
(* of a launch is running, one spawn exists for its record and no command  *)
(* has been issued for it: the loop ends with the first reposition.        *)
C17_SpawnOnceRepositionOnce ==
    /\ \A a, b \in SpawnIdx : spawns[a].rec = spawns[b].rec => a = b
    /\ \A n \in SpawnIdx :
          /\ Cardinality({c \in CmdIdx : cmds[c].rec = spawns[n].rec}) <= 4
          /\ \A c, d \in CmdIdx :
                (cmds[c].rec = spawns[n].rec /\ cmds[d].rec = spawns[n].rec) =>
                    cmds[c].win = cmds[d].win
    /\ pc = "poll" =>
          /\ spawns # <<>> /\ spawns[Len(spawns)].rec = i
          /\ \A c \in CmdIdx : cmds[c].rec # i

\* two launches have ended: the first ran out of polls and issued nothing,
\* the second repositioned one window
C17_Witness ==
    /\ pc = "done"
    /\ Len(spawns) = 2
    /\ Len(cmds) = 4
    /\ cmds[1].rec = 2

----------------------------------------------------------------------------
(* C19: decisions are taken in file order, one per line read; commands and *)
(* spawns are issued in record order and for no record beyond the line     *)
(* read last; while a launch polls, no decision exists for a later record; *)
(* and when the pass is about to read a line, no launch is in progress.    *)
C19_OneRecordAtATime ==
    /\ \A k \in PlanIdx : plan[k].rec = k
    /\ Len(plan) <= i /\ i <= Len(plan) + 1
    /\ \A c \in CmdIdx : cmds[c].rec <= i
    /\ \A c, d \in CmdIdx : c < d => cmds[c].rec <= cmds[d].rec
    /\ \A n \in SpawnIdx : spawns[n].rec <= i
    /\ \A n, m \in SpawnIdx : n < m => spawns[n].rec < spawns[m].rec
    /\ pc = "poll" => (frame # NoFrame /\ Len(plan) = i)
    /\ pc \in {"start", "loop", "done"} => (frame = NoFrame /\ t = 0)

\* the launch for the second record is polling, after the launch for the
\* first record used up its polls and issued nothing
C19_Witness ==
    /\ pc = "poll"
    /\ i = 2
    /\ Len(spawns) = 2
    /\ cmds = <<>>
    /\ t > 0

----------------------------------------------------------------------------
(* C18: a save never ends in an error, and the snapshot of a save that has *)
(* ended holds the windows whose type query succeeded and showed a normal  *)
(* window, in listing order, the windows whose query failed left out.      *)
C18_SnapshotBestEffort ==
    /\ cpc # "crashed"
    /\ SaveDone =>
          LET Answered(win) == ~win.gone
          IN relevant = Relevant(SelectSeq(desk.wins, Answered), desk.procs)

----------------------------------------------------------------------------
====
